---- MODULE Spec2Model ----
(***************************************************************************)
(* SkyLearn-LMS SCORM add-on: package ingestion (scorm/models.py), the     *)
(* attempt lifecycle and the SCORM runtime API bridge (scorm/views.py),    *)
(* and the admin/edit operations that change the same records              *)
(* (scorm/admin.py, scorm/forms.py).                                       *)
(*                                                                         *)
(* The durable store is modelled by `packages` and `attempts`; every       *)
(* request handler works on an in-memory copy of a row that it loaded and  *)
(* writes the whole copy back with save(), as Django's Model.save() does.  *)
(***************************************************************************)
EXTENDS Integers, Sequences, FiniteSets, TLC

\* ------------------------------------------------------------------ bounds
MaxPackages == 1
MaxAttempts == 3
MaxClock == 4
MaxReqs == 2
\* requests the API specification SpecApi handles at the same time
MaxApiReqs == 1

Packages == 1..MaxPackages
Reqs == 1..MaxReqs

\* ------------------------------------------------------- option values
\* Python None / a nullable column: the empty tuple; a present value x: <<x>>
None == << >>
Some(x) == <<x>>

\* -------------------------------------------------------------- learners
\* alice and bob are students enrolled in the course of every package,
\* mallory is logged in but has no student profile (views.py:168-176)
Users == {"alice", "bob", "mallory"}
Enrolled == {"alice", "bob"}

\* ======================================================================
\* Package ingestion
\* ======================================================================

PackageStatus == {"pending", "processing", "ready", "error"}

\* 500 * 1024 * 1024 (models.py:28, forms.py:108)
MaxUploadBytes == 524288000

\* Uploaded files: the name, the size in bytes and what the archive holds.
\*   archive: "badzip"   - not a ZIP file
\*            "root"     - imsmanifest.xml is an entry at the root
\*            "nested"   - imsmanifest.xml only inside a folder
\*            "nomanifest" - no imsmanifest.xml at all
FileNames == {"course.zip", "course.ZIP", "course.tar"}
FileSizes == {1024, MaxUploadBytes, MaxUploadBytes + 1}
Archives == {"badzip", "root", "nested", "nomanifest"}
Uploads == [name : FileNames, size : FileSizes, archive : Archives]

\* str.endswith('.zip') on the names above
EndsWithZip(name) == name = "course.zip"
\* name.lower().endswith('.zip') and FileExtensionValidator(['zip'])
LowerEndsWithZip(name) == name \in {"course.zip", "course.ZIP"}

\* 'imsmanifest.xml' in zip_file.namelist()
ManifestInNamelist(archive) == archive = "root"

\* a size check that also turns away a file of exactly the limit
validate_scorm_package_SizeInclusive(file) ==
    IF ~EndsWithZip(file.name) THEN "File must be a ZIP archive"
    ELSE IF file.size >= MaxUploadBytes THEN "File size cannot exceed 500MB"
    ELSE IF file.archive = "badzip" THEN "Invalid ZIP file"
    ELSE IF ~ManifestInNamelist(file.archive)
         THEN "Invalid SCORM package: imsmanifest.xml not found"
    ELSE "ok"

\* validate_scorm_package(file): "ok" or the ValidationError raised
validate_scorm_package(file) ==
    IF ~EndsWithZip(file.name) THEN "File must be a ZIP archive"
    ELSE IF file.size > MaxUploadBytes THEN "File size cannot exceed 500MB"
    ELSE IF file.archive = "badzip" THEN "Invalid ZIP file"
    ELSE IF ~ManifestInNamelist(file.archive)
         THEN "Invalid SCORM package: imsmanifest.xml not found"
    ELSE "ok"

\* ScormPackageUploadForm.clean_package_file
clean_package_file(file) ==
    IF ~LowerEndsWithZip(file.name) THEN "Please upload a ZIP file."
    ELSE IF file.size > MaxUploadBytes THEN "File size cannot exceed 500MB."
    ELSE "ok"

\* clean_passing_score: the range the forms accept
PassingScoreOk(s) == 0 <= s /\ s <= 100

\* the form is valid when the form's own check and the model field's
\* validators (FileExtensionValidator, validate_scorm_package) all pass
UploadFormValid(file, passing) ==
    /\ clean_package_file(file) = "ok"
    /\ LowerEndsWithZip(file.name)
    /\ validate_scorm_package(file) = "ok"
    /\ PassingScoreOk(passing)

\* passing-score settings tried by upload and edit
PassingScores == {0, 70, 100}

\* a slot of the package table with no row
NoPackage == [status |-> "absent"]

\* a stored row before extraction: the model's defaults, the archive kept
\* in package_file (has_file: the FileField is not empty) and the settings
NewPackage(archive, allow, passing) ==
    [status |-> "pending",
     has_file |-> TRUE,
     archive |-> archive,
     version |-> "1.2",
     course |-> "course-1",
     extracted_path |-> "",
     entry_point |-> "",
     error_message |-> "",
     allow_multiple_attempts |-> allow,
     passing_score |-> passing]

\* What the file system and the manifest's content answer to
\* extract_package, call by call.
\*   mkdir    - extract_base.mkdir(parents=True, exist_ok=True) succeeds
\*   write    - extractall can write the members (space, permissions)
\*   readable - the manifest opens and decodes as UTF-8
\*   href     - the regex finds <resource ... href="...">
FsOutcomes ==
    [mkdir : BOOLEAN, write : BOOLEAN, readable : BOOLEAN, href : BOOLEAN]

ExtractedPath == "scorm_extracted/1/slug"

\* (extract_base / 'imsmanifest.xml').exists() after extractall
ManifestExtracted(archive) == archive = "root"

\* ScormPackage.extract_package on the in-memory object self.
\* Result: [ret, self, saved] where ret is "true", "false" or "raised"
\* (an exception that leaves the method), self the object afterwards and
\* saved whether self.save() wrote the row.
extract_package(self, fs) ==
    IF ~self.has_file
    THEN [ret |-> "false", self |-> self, saved |-> FALSE]
    ELSE IF ~fs.mkdir
    THEN [ret |-> "raised", self |-> self, saved |-> FALSE]
    ELSE IF self.archive = "badzip"
    THEN [ret |-> "false", saved |-> TRUE,
          self |-> [self EXCEPT !.status = "error",
                                !.error_message = "File is not a zip file"]]
    ELSE IF ~fs.write
    THEN [ret |-> "false", saved |-> TRUE,
          self |-> [self EXCEPT !.status = "error",
                                !.error_message = "No space left on device"]]
    ELSE IF ManifestExtracted(self.archive) /\ ~fs.readable
    THEN [ret |-> "false", saved |-> TRUE,
          self |-> [self EXCEPT !.extracted_path = ExtractedPath,
                                !.status = "error",
                                !.error_message = "codec can't decode"]]
    ELSE [ret |-> "true", saved |-> TRUE,
          self |-> [self EXCEPT
                      !.extracted_path = ExtractedPath,
                      !.entry_point =
                          IF ~ManifestExtracted(self.archive)
                          THEN self.entry_point
                          ELSE IF fs.href THEN "launch.html"
                          ELSE "index.html",
                      !.status = "ready"]]

\* ======================================================================
\* Attempts
\* ======================================================================

\* ScormAttempt.STATUS_CHOICES
STATUS_CHOICES ==
    {"browsed", "incomplete", "completed", "failed", "passed", "not_attempted"}

\* the row get_or_create inserts in launch_scorm_package: the lookup
\* arguments overridden by defaults (lesson_status 'incomplete'), the other
\* columns at the model's defaults; auto_now_add / auto_now stamp the times
NewAttempt(p, u, t) ==
    [package |-> p,
     user |-> u,
     started_at |-> t,
     last_accessed |-> t,
     completed_at |-> None,
     lesson_status |-> "incomplete",
     score_raw |-> None,
     score_min |-> 0,
     score_max |-> 100,
     suspend_data |-> "",
     lesson_location |-> "",
     exit_mode |-> "",
     credit |-> "credit",
     entry |-> "ab-initio"]

\* ======================================================================
\* SCORM data-model bridge
\* ======================================================================

\* Parameter values a player sends.  LongLocation has 300 characters and
\* LongExit 25; the others are shorter than 20.
LongLocation == "x*300"
LongExit == "resume-bookmark-page-0021"
\* a JSON null among the parameters: the value is Python's None
JsonNull == "json:null"
\* a JSON array among the parameters: the value is a Python list, which
\* cannot be hashed ('value in dict(...)' raises TypeError)
JsonList == "json:list"
Values ==
    {"", "85", "75", "0", "100", "85.0", "notanumber", "passed", "completed",
     "incomplete", "bogus", "page-7", "state-A", LongLocation, LongExit,
     " 85 ", "1e2", "85,5", "0x10", JsonNull}

\* float(value): the number, or None when float raises: ValueError for a
\* string that is no number, TypeError for None.  set_scorm_value answers
\* False to both, the first in the inner handler, the second in the outer.
ValueError == "ValueError"
FloatTable ==
    ("85" :> 85) @@ ("75" :> 75) @@ ("0" :> 0) @@ ("100" :> 100) @@
    ("85.0" :> 85) @@ (" 85 " :> 85) @@ ("1e2" :> 100)
\* a conversion that never raises: what is no number counts as 0
float_NeverRaises(v) ==
    IF v \in DOMAIN FloatTable THEN Some(FloatTable[v]) ELSE Some(0)
float(v) == IF v \in DOMAIN FloatTable THEN Some(FloatTable[v]) ELSE None

\* str(value)
Str(v) ==
    IF v = JsonNull THEN "None"
    ELSE IF v = JsonList THEN "['passed']"
    ELSE v

\* str(x) of a float with an integral value
StrFloatTable ==
    (85 :> "85.0") @@ (75 :> "75.0") @@ (0 :> "0.0") @@ (100 :> "100.0")
    @@ (50 :> "50.0") @@ (35 :> "35.0")
StrFloat(x) == StrFloatTable[x]

\* len(s)
StrLen(s) ==
    IF s = LongLocation THEN 300
    ELSE IF s = LongExit THEN 25
    ELSE IF s = "" THEN 0
    ELSE 10

\* s[:n] for the two slices the bridge takes (n = 255 and n = 20)
Slice(s, n) ==
    IF StrLen(s) <= n THEN s
    ELSE IF s = LongLocation /\ n = 255 THEN "x*255"
    ELSE IF s = LongLocation /\ n = 20 THEN "x*20"
    ELSE "resume-bookmark-page"

\* user.id and user.get_full_name() or user.username
UserId == ("alice" :> "11") @@ ("bob" :> "12") @@ ("mallory" :> "13")
UserName == ("alice" :> "Alice A") @@ ("bob" :> "bob") @@ ("mallory" :> "mallory")

\* element names: the catalog of get_scorm_value / set_scorm_value and some
\* names outside it
Elements ==
    {"cmi.core.lesson_status", "cmi.core.score.raw", "cmi.core.score.min",
     "cmi.core.score.max", "cmi.core.lesson_location", "cmi.core.credit",
     "cmi.core.entry", "cmi.core.total_time", "cmi.core.session_time",
     "cmi.core.exit", "cmi.suspend_data", "cmi.launch_data", "cmi.comments",
     "cmi.comments_from_lms", "cmi.core.student_id", "cmi.core.student_name",
     "cmi.core._version", "cmi.core.score.scaled", "cmi.interactions.0.id",
     "cmi.objectives.0.id", "cmi.bogus", ""}

\* get_scorm_value without the final return: an unknown element gives None
get_scorm_value_NoFallback(attempt, element) ==
    CASE element = "cmi.core.lesson_status" -> attempt.lesson_status
      [] element = "cmi.core.score.raw" ->
             IF attempt.score_raw # None
             THEN StrFloat(attempt.score_raw[1]) ELSE ""
      [] element = "cmi.core.score.min" -> StrFloat(attempt.score_min)
      [] element = "cmi.core.score.max" -> StrFloat(attempt.score_max)
      [] element = "cmi.core.lesson_location" -> attempt.lesson_location
      [] element = "cmi.core.credit" -> attempt.credit
      [] element = "cmi.core.entry" -> attempt.entry
      [] element = "cmi.core.total_time" -> "00:00:00"
      [] element = "cmi.core.session_time" -> "00:00:00"
      [] element = "cmi.core.exit" -> attempt.exit_mode
      [] element = "cmi.suspend_data" -> attempt.suspend_data
      [] element = "cmi.launch_data" -> ""
      [] element = "cmi.comments" -> ""
      [] element = "cmi.comments_from_lms" -> ""
      [] element = "cmi.core.student_id" -> UserId[attempt.user]
      [] element = "cmi.core.student_name" -> UserName[attempt.user]
      [] element = "cmi.core._version" -> "3.4"
      [] OTHER -> JsonNull

\* get_scorm_value(attempt, element).  total_time and session_time are
\* never written by any handler, so both read '00:00:00'.
get_scorm_value(attempt, element) ==
    CASE element = "cmi.core.lesson_status" -> attempt.lesson_status
      [] element = "cmi.core.score.raw" ->
             IF attempt.score_raw # None
             THEN StrFloat(attempt.score_raw[1]) ELSE ""
      [] element = "cmi.core.score.min" -> StrFloat(attempt.score_min)
      [] element = "cmi.core.score.max" -> StrFloat(attempt.score_max)
      [] element = "cmi.core.lesson_location" -> attempt.lesson_location
      [] element = "cmi.core.credit" -> attempt.credit
      [] element = "cmi.core.entry" -> attempt.entry
      [] element = "cmi.core.total_time" -> "00:00:00"
      [] element = "cmi.core.session_time" -> "00:00:00"
      [] element = "cmi.core.exit" -> attempt.exit_mode
      [] element = "cmi.suspend_data" -> attempt.suspend_data
      [] element = "cmi.launch_data" -> ""
      [] element = "cmi.comments" -> ""
      [] element = "cmi.comments_from_lms" -> ""
      [] element = "cmi.core.student_id" -> UserId[attempt.user]
      [] element = "cmi.core.student_name" -> UserName[attempt.user]
      [] element = "cmi.core._version" -> "3.4"
      [] OTHER -> ""

\* set_scorm_value(attempt, element, value): [ok, attempt], the returned
\* boolean and the in-memory attempt afterwards
set_scorm_value(attempt, element, value) ==
    CASE element = "cmi.core.lesson_status" ->
             IF value = JsonList
             THEN \* TypeError, answered False by the outer handler
                  [ok |-> FALSE, attempt |-> attempt]
             ELSE [ok |-> TRUE,
                   attempt |-> IF value \in STATUS_CHOICES
                               THEN [attempt EXCEPT !.lesson_status = value]
                               ELSE attempt]
      [] element = "cmi.core.score.raw" ->
             IF float(value) = None
             THEN [ok |-> FALSE, attempt |-> attempt]
             ELSE [ok |-> TRUE,
                   attempt |-> [attempt EXCEPT !.score_raw = float(value)]]
      [] element = "cmi.core.score.min" ->
             IF float(value) = None
             THEN [ok |-> FALSE, attempt |-> attempt]
             ELSE [ok |-> TRUE,
                   attempt |-> [attempt EXCEPT !.score_min = float(value)[1]]]
      [] element = "cmi.core.score.max" ->
             IF float(value) = None
             THEN [ok |-> FALSE, attempt |-> attempt]
             ELSE [ok |-> TRUE,
                   attempt |-> [attempt EXCEPT !.score_max = float(value)[1]]]
      [] element = "cmi.core.lesson_location" ->
             [ok |-> TRUE,
              attempt |-> [attempt EXCEPT
                             !.lesson_location = Slice(Str(value), 255)]]
      [] element = "cmi.core.exit" ->
             [ok |-> TRUE,
              attempt |-> [attempt EXCEPT
                             !.exit_mode = Slice(Str(value), 20)]]
      [] element = "cmi.suspend_data" ->
             [ok |-> TRUE,
              attempt |-> [attempt EXCEPT !.suspend_data = Str(value)]]
      [] OTHER -> [ok |-> TRUE, attempt |-> attempt]

\* ======================================================================
\* Scoring
\* ======================================================================

\* Scores are floats with integral values; a quotient of two of them is
\* kept exactly, as the fraction <<n, d>> in lowest terms with d > 0.
RECURSIVE Gcd(_, _)
Gcd(a, b) == IF b = 0 THEN a ELSE Gcd(b, a % b)
Abs(x) == IF x < 0 THEN -x ELSE x
Fraction(n, d) ==
    LET g == Gcd(Abs(n), Abs(d))
        sgn == IF d < 0 THEN -1 ELSE 1
    IN <<(sgn * n) \div g, (sgn * d) \div g>>

\* Python's a / b on floats: None stands for ZeroDivisionError
TrueDiv(a, b) == IF b = 0 THEN None ELSE Some(Fraction(a, b))
\* q * k and q >= k for a fraction q and an integer k
Times(q, k) == Fraction(q[1] * k, q[2])
AtLeast(q, k) == q[1] >= k * q[2]
Zero == <<0, 1>>

\* get_percentage_score without the test of score_max
get_percentage_score_NoMaxGuard(self) ==
    IF self.score_raw # None
    THEN IF TrueDiv(self.score_raw[1], self.score_max) = None THEN None
         ELSE Some(Times(TrueDiv(self.score_raw[1], self.score_max)[1], 100))
    ELSE Some(Zero)

\* ScormAttempt.get_percentage_score: Some(fraction), or None when the
\* division raises
get_percentage_score(self) ==
    IF self.score_raw # None /\ self.score_max # 0
    THEN IF TrueDiv(self.score_raw[1], self.score_max) = None THEN None
         ELSE Some(Times(TrueDiv(self.score_raw[1], self.score_max)[1], 100))
    ELSE Some(Zero)

\* ScormAttempt.is_passed for a package with the given passing_score:
\* Some(boolean), or None when the division raises
is_passed(self, passing_score) ==
    IF self.score_raw # None /\ passing_score # 0
    THEN IF self.score_max # 0
         THEN IF TrueDiv(self.score_raw[1], self.score_max) = None THEN None
              ELSE Some(AtLeast(
                     Times(TrueDiv(self.score_raw[1], self.score_max)[1], 100),
                     passing_score))
         ELSE Some(AtLeast(Zero, passing_score))
    ELSE Some(self.lesson_status = "passed")

VARIABLES
    packages,   \* package id -> stored ScormPackage row, or NoPackage
    ingest,     \* package id -> progress of the upload handler of that row
    attempts,   \* stored ScormAttempt rows; the row's id is its index
    clock,      \* the time now() last returned
    req,        \* request slot -> the handler running in it and its objects
    resp,       \* the response most recently sent by any handler
    acked,      \* history: attempt id -> element -> <<value, concurrent>>
                \*   of the latest LMSSetValue on it that answered success:
                \*   the value sent, and whether another LMSSetValue was
                \*   answered while this one was being handled
    durable,    \* history: attempt id -> element -> acknowledged value that
                \*   a later LMSCommit/LMSFinish answered success for
    raced       \* history: request slot -> whether a write to the slot's
                \*   attempt was acknowledged since the slot loaded it
                \*   ("no", or "set" / "save" for the kind of that write)

history == <<acked, durable, raced>>
vars == <<packages, ingest, attempts, clock, req, resp, acked, durable, raced>>

NoIngest == [pc |-> "none"]
Idle == [pc |-> "idle"]
NoResponse == [op |-> "none"]

\* the elements whose acknowledged writes the history variables follow
Monitored ==
    {"cmi.core.score.raw", "cmi.core.lesson_location", "cmi.suspend_data"}
NoWrites == [e \in Monitored |-> None]
NoHistory == [a \in 1..MaxAttempts |-> NoWrites]

AttemptIds == 1..Len(attempts)

\* ScormAttempt.objects.filter(package=p, user=u)
AttemptsOf(p, u) ==
    {a \in AttemptIds : attempts[a].package = p /\ attempts[a].user = u}

\* QuerySet.first() under Meta.ordering = ['-started_at']
LatestOf(ids) ==
    CHOOSE a \in ids :
        \A b \in ids : attempts[b].started_at <= attempts[a].started_at

Init ==
    /\ packages = [p \in Packages |-> NoPackage]
    /\ ingest = [p \in Packages |-> NoIngest]
    /\ attempts = << >>
    /\ clock = 0
    /\ req = [r \in Reqs |-> Idle]
    /\ resp = NoResponse
    /\ acked = NoHistory
    /\ durable = NoHistory
    /\ raced = [r \in Reqs |-> "no"]

\* ------------------------------------------------------------ packages

\* ScormPackageCreateView.form_valid, first half: the valid form is saved
\* (super().form_valid); ScormPackageAdmin.save_model does the same
FormValidSave(p) ==
    \E file \in Uploads, allow \in BOOLEAN, passing \in PassingScores :
        /\ packages[p] = NoPackage
        /\ UploadFormValid(file, passing)
        /\ packages' = [packages EXCEPT
                          ![p] = NewPackage(file.archive, allow, passing)]
        /\ ingest' = [ingest EXCEPT
                        ![p] = [pc |-> "saved", file |-> file,
                                self |-> NewPackage(file.archive, allow,
                                                    passing)]]
        /\ UNCHANGED <<attempts, clock, req, resp, history>>

\* an upload the form rejects: the form is shown again with the error and
\* nothing is stored (resp also names the file it answers)
FormInvalid(p) ==
    \E file \in Uploads, passing \in PassingScores :
        /\ packages[p] = NoPackage
        /\ ~UploadFormValid(file, passing)
        /\ resp' = [op |-> "upload", status |-> 200, file |-> file,
                    error |-> IF clean_package_file(file) # "ok"
                              THEN clean_package_file(file)
                              ELSE validate_scorm_package(file)]
        /\ UNCHANGED <<packages, ingest, attempts, clock, req, history>>

\* what form_valid answers after extract_package: the redirect with the
\* success message when self.object.status == 'ready', with the error
\* message otherwise; an exception that left extract_package leaves the view
UploadResponse(r) ==
    IF r.ret = "raised"
    THEN [op |-> "upload", status |-> 500, error |-> "exception"]
    ELSE [op |-> "upload", status |-> 302,
          error |-> IF r.self.status = "ready" THEN "ok"
                    ELSE r.self.error_message]

\* form_valid, second half: self.object.extract_package() and the message
ExtractWith(p, fs) ==
    /\ ingest[p].pc = "saved"
    /\ LET r == extract_package(ingest[p].self, fs) IN
        /\ packages' = IF r.saved THEN [packages EXCEPT ![p] = r.self]
                       ELSE packages
        /\ ingest' = [ingest EXCEPT ![p] = [pc |-> r.ret]]
        /\ resp' = UploadResponse(r)
    /\ UNCHANGED <<attempts, clock, req, history>>

ExtractPackage(p) == \E fs \in FsOutcomes : ExtractWith(p, fs)

\* ScormPackageUpdateView with ScormPackageEditForm: settings only
EditPackage(p) ==
    \E allow \in BOOLEAN, passing \in PassingScores :
        /\ packages[p] # NoPackage
        /\ PassingScoreOk(passing)
        /\ packages' = [packages EXCEPT
                          ![p].allow_multiple_attempts = allow,
                          ![p].passing_score = passing]
        /\ resp' = [op |-> "edit", status |-> 302]
        /\ UNCHANGED <<ingest, attempts, clock, req, history>>

\* ScormPackageAdmin, the change form of a stored package, with a save_model
\* that calls extract_package whether or not the object is new
AdminChangePackage_Reextracts(p) ==
    \E allow \in BOOLEAN, passing \in PassingScores, fs \in FsOutcomes :
        /\ packages[p] # NoPackage
        /\ LET obj == [packages[p] EXCEPT
                          !.allow_multiple_attempts = allow,
                          !.passing_score = passing]
               r == extract_package(obj, fs)
           IN packages' = [packages EXCEPT ![p] = IF r.saved THEN r.self
                                                  ELSE obj]
        /\ resp' = [op |-> "admin_change", status |-> 302]
        /\ UNCHANGED <<ingest, attempts, clock, req, history>>

\* ScormPackageAdmin, the change form of a stored package: status,
\* extracted_path, entry_point and error_message are read-only, and so are
\* package_file, course and version of an existing object
\* (get_readonly_fields); the settings are written.  save_model is called
\* with change = True, so neither uploaded_by is set nor extract_package
\* called.  passing_score has no validator on the model field.
AdminChangePackage(p) ==
    \E allow \in BOOLEAN, passing \in PassingScores :
        /\ packages[p] # NoPackage
        /\ packages' = [packages EXCEPT
                          ![p].allow_multiple_attempts = allow,
                          ![p].passing_score = passing]
        /\ resp' = [op |-> "admin_change", status |-> 302]
        /\ UNCHANGED <<ingest, attempts, clock, req, history>>

\* -------------------------------------------------------------- launch

\* the permission check of launch_scorm_package (views.py:167-176)
CanLaunch(u) == u \in Enrolled

\* the multiple-attempts check (views.py:184-188)
LaunchRefused(p, u) ==
    /\ ~packages[p].allow_multiple_attempts
    /\ AttemptsOf(p, u) # {}
    /\ attempts[LatestOf(AttemptsOf(p, u))].lesson_status
           \in {"completed", "passed"}

\* the rows get_or_create looks up (views.py:191-194)
NotAttempted(p, u) ==
    {a \in AttemptsOf(p, u) : attempts[a].lesson_status = "not_attempted"}

\* what the learner gets back: the player page (200) with the attempt in its
\* context, the redirect with the warning (302), or an error page
LaunchResponse(status, a) ==
    [op |-> "launch", status |-> status, attempt |-> a]

\* the completed_packages of the player context (views.py:211-216): the
\* packages of the course on which the learner has an attempt that is
\* completed or passed (every package of the model is of the one course)
completed_packages(u, atts) ==
    {atts[a].package : a \in {x \in DOMAIN atts :
        /\ atts[x].user = u
        /\ atts[x].lesson_status \in {"completed", "passed"}}}

\* the player page with its context, rendered from the rows atts
PlayerPage(u, a, atts) ==
    LaunchResponse(200, a)
        @@ [completed_packages |-> completed_packages(u, atts)]

\* a launch that looks the package up by slug alone, whatever its status
LaunchBegin_AnyStatus(r, u, p) ==
    /\ req[r] = Idle
    /\ IF packages[p] = NoPackage \/ ~CanLaunch(u)
       THEN /\ resp' = LaunchResponse(404, 0)
            /\ UNCHANGED <<attempts, clock, req>>
       ELSE IF LaunchRefused(p, u)
       THEN /\ resp' = LaunchResponse(302, 0)
            /\ UNCHANGED <<attempts, clock, req>>
       ELSE IF Cardinality(NotAttempted(p, u)) > 1
       THEN \* MultipleObjectsReturned leaves the view
            /\ resp' = LaunchResponse(500, 0)
            /\ UNCHANGED <<attempts, clock, req>>
       ELSE IF NotAttempted(p, u) = {}
       THEN /\ Len(attempts) < MaxAttempts
            /\ clock < MaxClock
            /\ clock' = clock + 1
            /\ attempts' = Append(attempts, NewAttempt(p, u, clock + 1))
            /\ resp' = PlayerPage(u, Len(attempts) + 1, attempts')
            /\ UNCHANGED req
       ELSE LET a == CHOOSE x \in NotAttempted(p, u) : TRUE IN
            /\ req' = [req EXCEPT ![r] =
                          [pc |-> "resume", user |-> u, package |-> p,
                           attempt_id |-> a, attempt |-> attempts[a]]]
            /\ UNCHANGED <<attempts, clock, resp>>
    /\ UNCHANGED <<packages, ingest, history>>

\* launch_scorm_package up to and including get_or_create
LaunchBegin(r, u, p) ==
    /\ req[r] = Idle
    /\ IF packages[p].status # "ready" \/ ~CanLaunch(u)
       THEN /\ resp' = LaunchResponse(404, 0)
            /\ UNCHANGED <<attempts, clock, req>>
       ELSE IF LaunchRefused(p, u)
       THEN /\ resp' = LaunchResponse(302, 0)
            /\ UNCHANGED <<attempts, clock, req>>
       ELSE IF Cardinality(NotAttempted(p, u)) > 1
       THEN \* MultipleObjectsReturned leaves the view
            /\ resp' = LaunchResponse(500, 0)
            /\ UNCHANGED <<attempts, clock, req>>
       ELSE IF NotAttempted(p, u) = {}
       THEN /\ Len(attempts) < MaxAttempts
            /\ clock < MaxClock
            /\ clock' = clock + 1
            /\ attempts' = Append(attempts, NewAttempt(p, u, clock + 1))
            /\ resp' = PlayerPage(u, Len(attempts) + 1, attempts')
            /\ UNCHANGED req
       ELSE LET a == CHOOSE x \in NotAttempted(p, u) : TRUE IN
            /\ req' = [req EXCEPT ![r] =
                          [pc |-> "resume", user |-> u, package |-> p,
                           attempt_id |-> a, attempt |-> attempts[a]]]
            /\ UNCHANGED <<attempts, clock, resp>>
    /\ UNCHANGED <<packages, ingest, history>>

\* launch_scorm_package, "if not created": last_accessed = now(); save()
LaunchSave(r) ==
    /\ req[r].pc = "resume"
    /\ clock < MaxClock
    /\ clock' = clock + 1
    /\ attempts' = [attempts EXCEPT ![req[r].attempt_id] =
                       [req[r].attempt EXCEPT !.last_accessed = clock + 1]]
    /\ resp' = PlayerPage(req[r].user, req[r].attempt_id, attempts')
    /\ req' = [req EXCEPT ![r] = Idle]
    /\ acked' = [acked EXCEPT ![req[r].attempt_id] = NoWrites]
    /\ durable' = [durable EXCEPT ![req[r].attempt_id] = NoWrites]
    /\ UNCHANGED <<packages, ingest, raced>>

\* ---------------------------------------------------------------- admin

\* ScormAttemptAdmin change form: the edited row is saved (auto_now stamps
\* last_accessed) and the admin is redirected to the list
AdminEdit(a, status, score_raw, score_max) ==
    /\ a \in AttemptIds
    /\ clock < MaxClock
    /\ clock' = clock + 1
    /\ attempts' = [attempts EXCEPT ![a].lesson_status = status,
                                    ![a].score_raw = score_raw,
                                    ![a].score_max = score_max,
                                    ![a].last_accessed = clock + 1]
    /\ attempts' # attempts
    /\ resp' = [op |-> "admin", status |-> 302]
    /\ acked' = [acked EXCEPT ![a] = NoWrites]
    /\ durable' = [durable EXCEPT ![a] = NoWrites]
    /\ UNCHANGED <<packages, ingest, req, raced>>

\* the admin changes the lesson_status of an attempt
AdminEditAttempt(a) ==
    \E status \in STATUS_CHOICES :
        /\ a \in AttemptIds
        /\ attempts[a].lesson_status # status
        /\ AdminEdit(a, status, attempts[a].score_raw, attempts[a].score_max)

\* scores the admin enters
RawScores == {None, Some(0), Some(35), Some(75), Some(100)}
MaxScores == {0, 50, 100}

\* the admin changes the SCORM data of an attempt
AdminEditScores(a) ==
    \E status \in STATUS_CHOICES, score_raw \in RawScores,
       score_max \in MaxScores :
        AdminEdit(a, status, score_raw, score_max)

\* ScormAttemptAdmin list row: the score and passed columns of attempt a
ShowAttempt(a) ==
    /\ a \in AttemptIds
    /\ resp' = [op |-> "display", attempt |-> a,
                percentage |-> get_percentage_score(attempts[a]),
                passed |-> is_passed(attempts[a],
                              packages[attempts[a].package].passing_score)]
    /\ UNCHANGED <<packages, ingest, attempts, clock, req, history>>

\* ------------------------------------------------------------- progress

\* the scores a learner's attempts are left with: none, a score below zero
\* (score_raw is a FloatField without validators) and scores from 0 up
ProgressScores == {None, Some(0 - 5), Some(0), Some(75)}

\* the admin changes status and raw score of an attempt
AdminEnterScore(a) ==
    \E status \in STATUS_CHOICES, score_raw \in ProgressScores :
        /\ a \in AttemptIds
        /\ AdminEdit(a, status, score_raw, attempts[a].score_max)

\* the loop of user_scorm_progress (views.py:441-453) over the attempts ids
\* still to visit, newest first; acc is progress_by_package so far.
\* 'if attempt.score_raw and ...': None and 0.0 are falsy.
RECURSIVE GroupByPackage(_, _)
GroupByPackage(ids, acc) ==
    IF ids = {} THEN acc
    ELSE LET attempt == LatestOf(ids)
             p == attempts[attempt].package
             score_raw == attempts[attempt].score_raw
             entry == IF p \in DOMAIN acc THEN acc[p]
                      ELSE [latest_attempt |-> attempt,
                            total_attempts |-> 0,
                            best_score |-> 0]
             counted == [entry EXCEPT !.total_attempts = @ + 1]
             scored == IF /\ score_raw # None
                          /\ score_raw[1] # 0
                          /\ score_raw[1] > counted.best_score
                       THEN [counted EXCEPT !.best_score = score_raw[1]]
                       ELSE counted
         IN GroupByPackage(ids \ {attempt}, (p :> scored) @@ acc)

\* progress_by_package of learner u
progress_by_package(u) ==
    GroupByPackage({a \in AttemptIds : attempts[a].user = u}, << >>)

\* user_scorm_progress: the context of the progress page of learner u
user_scorm_progress(u) ==
    /\ resp' = LET progress == progress_by_package(u) IN
                [op |-> "progress", user |-> u,
                 progress_data |-> progress,
                 total_packages |-> Cardinality(DOMAIN progress),
                 completed_packages |->
                     Cardinality({p \in DOMAIN progress :
                         attempts[progress[p].latest_attempt].lesson_status
                             \in {"completed", "passed"}})]
    /\ UNCHANGED <<packages, ingest, attempts, clock, req, history>>

\* ---------------------------------------------------------- runtime API

Methods ==
    {"LMSGetValue", "LMSSetValue", "LMSCommit", "LMSFinish", "LMSInitialize"}

\* request.method, and what json.loads(request.body) gives: a JSON object,
\* a JSONDecodeError, a JSON array (data.get then raises AttributeError), or
\* a JSON object whose attempt_id is no number (the lookup then raises
\* ValueError)
HttpVerbs == {"POST", "GET"}
Bodies == {"object", "invalid", "array", "badid"}

\* the 'parameters' list of a request over the given elements and values
ParameterLists(es, vs) ==
    {<< >>} \cup {<<e>> : e \in es} \cup {<<e, v>> : e \in es, v \in vs}

\* the JsonResponse, with the caller and the attempt_id it answers: the HTTP
\* status, 'success' and 'value' (None when the body has no 'value' key; an
\* error body has neither key)
ApiResponse(u, aid, status, success, value) ==
    [op |-> "api", user |-> u, attempt_id |-> aid, status |-> status,
     success |-> success, value |-> value]

\* the lookup by id alone: get(id=attempt_id)
Owns_NoUserFilter(u, aid) == aid \in AttemptIds

\* ScormAttempt.objects.get(id=attempt_id, user=request.user) finds a row
Owns(u, aid) == aid \in AttemptIds /\ attempts[aid].user = u

\* scorm_api, the paths that answer before any attempt is loaded:
\* 405 for a verb other than POST, 400 for a body that is not JSON, 500 for
\* a body that is no JSON object or whose attempt_id is no number, 400 for
\* a missing (falsy) attempt_id, 404 for an attempt_id that is not an
\* attempt of the caller.
\* attempt_id 0 stands for a missing or falsy id.
ApiReject(u, verb, body, aid) ==
    /\ verb # "POST" \/ body # "object" \/ ~Owns(u, aid)
    /\ resp' = ApiResponse(u, aid,
                  IF verb # "POST" THEN 405
                  ELSE IF body = "invalid" THEN 400
                  ELSE IF body \in {"array", "badid"} THEN 500
                  ELSE IF aid = 0 THEN 400
                  ELSE 404,
                  FALSE, None)
    /\ UNCHANGED <<packages, ingest, attempts, clock, req, history>>

\* scorm_api, views.py:286-287: the attempt row of the caller is loaded
ApiLoad(r, u, aid) ==
    /\ req[r] = Idle
    /\ Owns(u, aid)
    /\ req' = [req EXCEPT ![r] =
                  [pc |-> "loaded", user |-> u, attempt_id |-> aid,
                   attempt |-> attempts[aid]]]
    /\ raced' = [raced EXCEPT ![r] = "no"]
    /\ UNCHANGED <<packages, ingest, attempts, clock, resp, history>>

\* scorm_api, views.py:291-313: the method is carried out on the loaded
\* object and the response is sent (resp also names the method, the element
\* and the value of the request it answers).  LMSCommit and LMSFinish call save(),
\* which writes every column of the loaded object and stamps last_accessed.
ApiHandle(r, method, parameters) ==
    LET u == req[r].user
        aid == req[r].attempt_id
        attempt == req[r].attempt
        element == IF Len(parameters) > 0 THEN parameters[1] ELSE ""
        value == IF Len(parameters) > 1 THEN parameters[2] ELSE ""
        Answer(success, v) ==
            ApiResponse(u, aid, 200, success, v)
                @@ [method |-> method, element |-> element, value_sent |-> value]
    IN
    /\ req[r].pc = "loaded"
    /\ CASE method = "LMSGetValue" ->
              /\ resp' = Answer(TRUE, Some(get_scorm_value(attempt, element)))
              /\ UNCHANGED <<attempts, clock>>
         [] method = "LMSSetValue" ->
              /\ resp' = Answer(set_scorm_value(attempt, element, value).ok,
                             None)
              /\ UNCHANGED <<attempts, clock>>
         [] method = "LMSCommit" ->
              /\ clock < MaxClock
              /\ clock' = clock + 1
              /\ attempts' = [attempts EXCEPT ![aid] =
                                [attempt EXCEPT !.last_accessed = clock + 1]]
              /\ resp' = Answer(TRUE, None)
         [] method = "LMSFinish" ->
              /\ clock < MaxClock
              /\ clock' = clock + 1
              /\ attempts' = [attempts EXCEPT ![aid] =
                                [attempt EXCEPT
                                   !.completed_at = Some(clock + 1),
                                   !.last_accessed = clock + 1]]
              /\ resp' = Answer(TRUE, None)
         [] OTHER ->
              /\ resp' = Answer(TRUE, Some(""))
              /\ UNCHANGED <<attempts, clock>>
    /\ req' = [req EXCEPT ![r] = Idle]
    /\ UNCHANGED <<packages, ingest>>

\* the slots other than r that hold a loaded copy of attempt aid
OtherLoaded(r, aid) ==
    {q \in Reqs \ {r} : req[q].pc = "loaded" /\ req[q].attempt_id = aid}

\* the history of acknowledged writes kept beside ApiHandle
RecordHistory(r, method, parameters) ==
    LET aid == req[r].attempt_id
        element == IF Len(parameters) > 0 THEN parameters[1] ELSE ""
        value == IF Len(parameters) > 1 THEN parameters[2] ELSE ""
    IN
    CASE method = "LMSSetValue" /\ element \in Monitored
             /\ set_scorm_value(req[r].attempt, element, value).ok ->
             /\ acked' = [acked EXCEPT
                           ![aid][element] = <<value, raced[r] = "set">>]
             /\ raced' = [q \in Reqs |->
                            IF q \in OtherLoaded(r, aid) /\ raced[q] = "no"
                            THEN "set" ELSE raced[q]]
             /\ UNCHANGED durable
      [] method \in {"LMSCommit", "LMSFinish"} ->
             /\ durable' = [durable EXCEPT ![aid] =
                              IF raced[r] = "no" THEN acked[aid] ELSE NoWrites]
             /\ acked' = [acked EXCEPT ![aid] =
                              IF raced[r] = "no" THEN acked[aid] ELSE NoWrites]
             /\ raced' = [q \in Reqs |->
                            IF q \in OtherLoaded(r, aid) THEN "save"
                            ELSE raced[q]]
      [] OTHER -> UNCHANGED history

\* a dispatch in which LMSSetValue saves the object it changed
ApiDispatch_SetSaves(r, method, parameters) ==
    IF method = "LMSSetValue"
    THEN LET element == IF Len(parameters) > 0 THEN parameters[1] ELSE ""
             value == IF Len(parameters) > 1 THEN parameters[2] ELSE ""
             result == set_scorm_value(req[r].attempt, element, value)
         IN /\ req[r].pc = "loaded"
            /\ attempts' = [attempts EXCEPT
                              ![req[r].attempt_id] = result.attempt]
            /\ resp' = ApiResponse(req[r].user, req[r].attempt_id, 200,
                                   result.ok, None)
                         @@ [method |-> method, element |-> element,
                             value_sent |-> value]
            /\ req' = [req EXCEPT ![r] = Idle]
            /\ UNCHANGED <<packages, ingest, clock, history>>
    ELSE ApiHandle(r, method, parameters) /\ UNCHANGED history

\* a request of the API endpoint is answered
ApiDispatch(r, method, parameters) ==
    /\ ApiHandle(r, method, parameters)
    /\ UNCHANGED history

\* the same, with the history of acknowledged writes recorded
PlayerDispatch(r, method, parameters) ==
    /\ ApiHandle(r, method, parameters)
    /\ RecordHistory(r, method, parameters)

\* ======================================================================
\* Specifications
\* ======================================================================

\* ---- Spec: uploads, extraction, the settings form, launches and the
\* admin's edits of attempts, from an empty store
Next ==
    \/ \E p \in Packages : FormValidSave(p)
    \/ \E p \in Packages : ExtractPackage(p)
    \/ \E p \in Packages : EditPackage(p)
    \/ \E r \in Reqs, u \in Users, p \in Packages : LaunchBegin(r, u, p)
    \/ \E r \in Reqs : LaunchSave(r)
    \/ \E a \in 1..MaxAttempts : AdminEditAttempt(a)

Spec == Init /\ [][Next]_vars

\* ---- SpecIngest: the upload form, extraction and the settings form
NextIngest ==
    \/ \E p \in Packages : FormValidSave(p)
    \/ \E p \in Packages : FormInvalid(p)
    \/ \E p \in Packages : ExtractPackage(p)
    \/ \E p \in Packages : EditPackage(p)
    \/ \E p \in Packages : AdminChangePackage(p)

SpecIngest == Init /\ [][NextIngest]_vars

\* ---- SpecExtract: extract_package applied to a stored row that no form
\* validated (Model.save() runs no validator): any archive, or no file
StoredPackages ==
    {[NewPackage(archive, allow, passing) EXCEPT !.has_file = has_file] :
        archive \in Archives, allow \in BOOLEAN, passing \in PassingScores,
        has_file \in BOOLEAN}

InitExtract ==
    /\ \E row \in StoredPackages :
          /\ packages = [p \in Packages |-> row]
          /\ ingest = [p \in Packages |-> [pc |-> "saved", self |-> row]]
    /\ attempts = << >>
    /\ clock = 0
    /\ req = [r \in Reqs |-> Idle]
    /\ resp = NoResponse
    /\ acked = NoHistory
    /\ durable = NoHistory
    /\ raced = [r \in Reqs |-> "no"]

NextExtract ==
    \/ \E p \in Packages : ExtractPackage(p)
    \/ \E p \in Packages : EditPackage(p)

SpecExtract == InitExtract /\ [][NextExtract]_vars

\* ---- SpecApi: the runtime API during play.  It starts in the state Spec
\* reaches when package 1 is ready and alice has launched it once; alice,
\* bob and mallory send requests, for every element of the catalog.
ReadyPackage ==
    [NewPackage("root", TRUE, 70) EXCEPT !.status = "ready",
                                   !.extracted_path = ExtractedPath,
                                   !.entry_point = "launch.html"]

InitApi ==
    /\ packages = [p \in Packages |-> IF p = 1 THEN ReadyPackage ELSE NoPackage]
    /\ ingest = [p \in Packages |-> IF p = 1 THEN [pc |-> "true"] ELSE NoIngest]
    /\ attempts = <<NewAttempt(1, "alice", 1)>>
    /\ clock = 1
    /\ req = [r \in Reqs |-> Idle]
    /\ resp = PlayerPage("alice", 1, attempts)
    /\ acked = NoHistory
    /\ durable = NoHistory
    /\ raced = [r \in Reqs |-> "no"]

\* the element asked for by LMSGetValue (none: the empty name)
GetParameters == ParameterLists(Elements, {})

\* element and value sent with LMSSetValue
SetParameters ==
    {<< >>, <<"cmi.core.score.raw">>,
     <<"cmi.core.score.raw", "85">>, <<"cmi.core.score.raw", "notanumber">>,
     <<"cmi.core.score.max", "0">>,
     <<"cmi.core.lesson_status", "passed">>,
     <<"cmi.core.lesson_status", "bogus">>,
     <<"cmi.core.lesson_location", LongLocation>>,
     <<"cmi.core.exit", LongExit>>,
     <<"cmi.suspend_data", "state-A">>,
     <<"cmi.core.credit", "bogus">>,
     <<"cmi.interactions.0.id", "bogus">>}

\* verb and body of the requests that fail before the attempt_id is looked
\* up: a GET, a POST that is no JSON, a POST of a JSON array, a POST with an
\* attempt_id that is no number
Envelopes ==
    {<<"GET", "object">>, <<"POST", "invalid">>, <<"POST", "array">>,
     <<"POST", "badid">>}

ApiReqs == 1..MaxApiReqs

NextApi ==
    \/ \E u \in Users, aid \in 0..(MaxAttempts + 1) :
          ApiReject(u, "POST", "object", aid)
    \/ \E u \in Users, env \in Envelopes, aid \in {0, 1} :
          ApiReject(u, env[1], env[2], aid)
    \/ \E r \in ApiReqs, u \in Users, aid \in 1..MaxAttempts : ApiLoad(r, u, aid)
    \/ \E r \in ApiReqs, parameters \in GetParameters :
          ApiDispatch(r, "LMSGetValue", parameters)
    \/ \E r \in ApiReqs, parameters \in SetParameters :
          ApiDispatch(r, "LMSSetValue", parameters)
    \/ \E r \in ApiReqs, method \in Methods \ {"LMSGetValue", "LMSSetValue"} :
          ApiDispatch(r, method, << >>)

SpecApi == InitApi /\ [][NextApi]_vars

\* ---- SpecBridge: get_scorm_value and set_scorm_value on attempts with any
\* status and scores (as the admin's change form leaves them), for every
\* element of the catalog and values of every kind
StoredAttempts ==
    {[NewAttempt(1, "alice", 1) EXCEPT !.lesson_status = status,
                                       !.score_raw = score_raw,
                                       !.score_max = score_max] :
        status \in STATUS_CHOICES, score_raw \in RawScores,
        score_max \in MaxScores}

InitBridge ==
    /\ packages = [p \in Packages |-> IF p = 1 THEN ReadyPackage ELSE NoPackage]
    /\ ingest = [p \in Packages |-> IF p = 1 THEN [pc |-> "true"] ELSE NoIngest]
    /\ \E row \in StoredAttempts : attempts = <<row>>
    /\ clock = 1
    /\ req = [r \in Reqs |-> Idle]
    /\ resp = NoResponse
    /\ acked = NoHistory
    /\ durable = NoHistory
    /\ raced = [r \in Reqs |-> "no"]

BridgeValues ==
    {"85", " 85 ", "notanumber", "85,5", "passed", LongLocation, JsonNull}

\* every element with a number, the score elements and the sliced or
\* stored strings with values of every kind, and the short parameter lists
\* values sent for cmi.core.lesson_status: a defined status, strings that are
\* none, a JSON null and a JSON array
StatusValues == {"completed", "bogus", "", JsonNull, JsonList}

BridgeSetParameters ==
    {<< >>, <<"cmi.core.score.raw">>}
    \cup {<<"cmi.core.lesson_status", v>> : v \in StatusValues}
    \cup {<<e, "85">> : e \in Elements}
    \cup {<<e, v>> : e \in {"cmi.core.score.raw", "cmi.core.score.min",
                            "cmi.core.score.max", "cmi.core.lesson_status",
                            "cmi.core.lesson_location", "cmi.core.exit",
                            "cmi.suspend_data"},
                     v \in BridgeValues}

NextBridge ==
    \/ \E r \in ApiReqs : ApiLoad(r, "alice", 1)
    \/ \E r \in ApiReqs, parameters \in GetParameters :
          ApiDispatch(r, "LMSGetValue", parameters)
    \/ \E r \in ApiReqs, parameters \in BridgeSetParameters :
          ApiDispatch(r, "LMSSetValue", parameters)

SpecBridge == InitBridge /\ [][NextBridge]_vars

\* ---- SpecSession: one player session on alice's attempt, with the history
\* of acknowledged writes recorded
SessionParameters ==
    {<<"cmi.core.score.raw", "85">>,
     <<"cmi.core.score.raw", "notanumber">>,
     <<"cmi.core.lesson_location", "page-7">>,
     <<"cmi.suspend_data", "state-A">>}

NextSession ==
    \/ \E r \in Reqs : ApiLoad(r, "alice", 1)
    \/ \E r \in Reqs : PlayerDispatch(r, "LMSGetValue", <<"cmi.core.score.raw">>)
    \/ \E r \in Reqs, parameters \in SessionParameters :
          PlayerDispatch(r, "LMSSetValue", parameters)
    \/ \E r \in Reqs, method \in Methods \ {"LMSGetValue", "LMSSetValue"} :
          PlayerDispatch(r, method, << >>)

SpecSession == InitApi /\ [][NextSession]_vars

\* ---- SpecScore: the admin enters statuses and scores, the settings form
\* sets the passing score, and the attempt list shows the result
NextScore ==
    \/ \E a \in 1..MaxAttempts : AdminEditScores(a)
    \/ \E p \in Packages : EditPackage(p)
    \/ \E a \in 1..MaxAttempts : ShowAttempt(a)

SpecScore == InitApi /\ [][NextScore]_vars

\* ---- SpecLaunch: extractions of stored packages and launches in every
\* order, by an enrolled learner and by a user who is not; the admin resets
\* attempts to 'not_attempted', the status a launch resumes
Launchers == {"alice", "mallory"}

AdminResetAttempt(a) ==
    /\ a \in AttemptIds
    /\ AdminEdit(a, "not_attempted", attempts[a].score_raw,
                 attempts[a].score_max)

NextLaunch ==
    \/ \E p \in Packages : ExtractPackage(p)
    \/ \E r \in ApiReqs, u \in Launchers, p \in Packages :
          LaunchBegin(r, u, p)
    \/ \E r \in ApiReqs : LaunchSave(r)
    \/ \E a \in 1..MaxAttempts : AdminResetAttempt(a)

SpecLaunch == InitExtract /\ [][NextLaunch]_vars

\* ---- SpecProgress: learners launch a ready package that allows several
\* attempts, the admin enters statuses and scores, and the learners open
\* their progress page
InitProgress ==
    /\ packages = [p \in Packages |-> ReadyPackage]
    /\ ingest = [p \in Packages |-> [pc |-> "true"]]
    /\ attempts = << >>
    /\ clock = 0
    /\ req = [r \in Reqs |-> Idle]
    /\ resp = NoResponse
    /\ acked = NoHistory
    /\ durable = NoHistory
    /\ raced = [r \in Reqs |-> "no"]

NextProgress ==
    \/ \E r \in ApiReqs, u \in Enrolled, p \in Packages : LaunchBegin(r, u, p)
    \/ \E r \in ApiReqs : LaunchSave(r)
    \/ \E a \in 1..MaxAttempts : AdminEnterScore(a)
    \/ \E u \in Enrolled : user_scorm_progress(u)

SpecProgress == InitProgress /\ [][NextProgress]_vars

\* ======================================================================
\* Properties
\* ======================================================================

Terminal == {"completed", "passed"}

\* a launch of package p by learner u is answered in this step
LaunchAnswered(u, p) ==
    \/ \E r \in Reqs : LaunchBegin(r, u, p) /\ req' = req
    \/ \E r \in Reqs : /\ req[r].pc = "resume"
                       /\ req[r].user = u
                       /\ req[r].package = p
                       /\ LaunchSave(r)

\* the response before this step answered a launch of p by u with an attempt
LaunchedBefore(u, p) ==
    /\ resp.op = "launch"
    /\ resp.status = 200
    /\ attempts[resp.attempt].user = u
    /\ attempts[resp.attempt].package = p

\* C1: a launch that directly follows a launch of the same package by the
\* same learner, whose attempt is not completed or passed, returns the same
\* attempt and stores no new attempt.
C1_LaunchIdempotent ==
    [][\A u \in Users, p \in Packages :
          (/\ LaunchedBefore(u, p)
           /\ attempts[resp.attempt].lesson_status \notin Terminal
           /\ LaunchAnswered(u, p))
          => (/\ resp'.status = 200
              /\ resp'.attempt = resp.attempt
              /\ Len(attempts') = Len(attempts))]_vars

\* C2: when the package disallows multiple attempts and some attempt of the
\* learner on it is completed or passed, a launch neither creates an attempt
\* nor resumes one.
C2_CompletedBlocksLaunch ==
    [][\A r \in Reqs, u \in Users, p \in Packages :
          (/\ packages[p].status = "ready"
           /\ ~packages[p].allow_multiple_attempts
           /\ \E a \in 1..Len(attempts) :
                 /\ attempts[a].package = p
                 /\ attempts[a].user = u
                 /\ attempts[a].lesson_status \in Terminal
           /\ LaunchBegin(r, u, p))
          => (attempts' = attempts /\ req' = req)]_vars

\* the ingestion of package p is over: extract_package returned or raised
Ingested(p) == ingest[p].pc \in {"true", "false", "raised"}

\* C8: once extract_package has completed for a package, by returning or by
\* failing at any step, the package's status is 'ready' or 'error'.
C8_IngestionSettlesStatus ==
    \A p \in Packages :
        Ingested(p) => packages[p].status \in {"ready", "error"}

\* C9: a stored package has entry_point and extracted_path both non-empty
\* when its status is 'ready', and both empty in any other status.
C9_PathsIffReady ==
    \A p \in Packages :
        packages[p] # NoPackage =>
            IF packages[p].status = "ready"
            THEN packages[p].entry_point # "" /\ packages[p].extracted_path # ""
            ELSE packages[p].entry_point = "" /\ packages[p].extracted_path = ""

Shown == attempts[resp.attempt]
ShownPassingScore == packages[Shown.package].passing_score

\* raw/max*100 as the specification defines it: 0 when max is 0 or raw unset
SpecPercentage(a) ==
    IF a.score_raw # None /\ a.score_max # 0
    THEN Fraction(a.score_raw[1] * 100, a.score_max)
    ELSE Zero

\* C6: is_passed() is true exactly when lesson_status is 'passed' or the
\* percentage score is at least the package's passing_score.
C6_PassedIffStatusOrScore ==
    resp.op = "display" =>
        resp.passed =
            Some(\/ Shown.lesson_status = "passed"
                 \/ AtLeast(SpecPercentage(Shown), ShownPassingScore))

\* C7: get_percentage_score() is score_raw/score_max*100 when score_max is
\* not zero and score_raw is set, and 0 otherwise; neither it nor is_passed
\* raises a division by zero; passing_score 70 with score 75 of 100 gives
\* percentage 75 and is_passed() true.
C7_PercentageNeverDivides ==
    resp.op = "display" =>
        /\ resp.percentage # None
        /\ resp.passed # None
        /\ IF Shown.score_raw # None /\ Shown.score_max # 0
           THEN resp.percentage[1][1] * Shown.score_max
                    = Shown.score_raw[1] * 100 * resp.percentage[1][2]
           ELSE resp.percentage = Some(Zero)
        /\ (/\ ShownPassingScore = 70
            /\ Shown.score_raw = Some(75)
            /\ Shown.score_max = 100)
           => (resp.percentage = Some(<<75, 1>>) /\ resp.passed = Some(TRUE))

\* C7 witness: a row is displayed for an attempt with a score and
\* score_max 0, and the percentage shown is 0
C7_Witness_ZeroMax ==
    /\ resp.op = "display"
    /\ Shown.score_raw # None
    /\ Shown.score_raw # Some(0)
    /\ Shown.score_max = 0
    /\ ShownPassingScore # 0
    /\ resp.percentage = Some(Zero)
    /\ resp.passed = Some(FALSE)

\* request slot r holds a request that was received after every
\* acknowledged write to its attempt had been answered
Sequential(r) == req[r].pc = "loaded" /\ raced[r] = "no"

\* C3: after an LMSSetValue of cmi.core.score.raw with a numeric value that
\* answered success and a following LMSCommit, a following LMSGetValue of
\* cmi.core.score.raw returns the value that was set ('85' reads '85.0').
C3_SetCommitGetRoundTrip ==
    [][\A r \in Reqs :
          (/\ Sequential(r)
           /\ durable[req[r].attempt_id]["cmi.core.score.raw"] # None
           /\ durable[req[r].attempt_id]["cmi.core.score.raw"]
                = acked[req[r].attempt_id]["cmi.core.score.raw"]
           /\ PlayerDispatch(r, "LMSGetValue", <<"cmi.core.score.raw">>))
          => resp'.value =
               Some(StrFloat(float(
                 durable[req[r].attempt_id]["cmi.core.score.raw"][1])[1]))]_vars

\* C4: when LMSSetValue calls on cmi.core.lesson_location and on
\* cmi.suspend_data of one attempt were handled concurrently and both
\* answered success, the LMSCommit that follows leaves both values in the
\* stored attempt.
C4_ConcurrentSetsBothStored ==
    [][\A r \in Reqs :
          (/\ Sequential(r)
           /\ acked[req[r].attempt_id]["cmi.core.lesson_location"] # None
           /\ acked[req[r].attempt_id]["cmi.suspend_data"] # None
           /\ \/ acked[req[r].attempt_id]["cmi.core.lesson_location"][2]
              \/ acked[req[r].attempt_id]["cmi.suspend_data"][2]
           /\ PlayerDispatch(r, "LMSCommit", << >>))
          => (/\ attempts'[req[r].attempt_id].lesson_location =
                   Slice(acked[req[r].attempt_id]
                              ["cmi.core.lesson_location"][1], 255)
              /\ attempts'[req[r].attempt_id].suspend_data =
                   acked[req[r].attempt_id]["cmi.suspend_data"][1])]_vars

\* attempt_id aid names no attempt, or an attempt of a user other than u
Foreign(u, aid) ==
    \/ aid > Len(attempts)
    \/ \E a \in 1..Len(attempts) : a = aid /\ attempts[a].user # u

\* C5: an API request whose attempt_id names another user's attempt or no
\* attempt is answered 404 without a value and leaves the stored attempts
\* and the running handlers as they are; the attempt a handler is given is
\* always one of its caller, and a stored attempt changes only in a handler
\* whose caller owns it.
C5_OnlyOwnAttempts ==
    [][/\ (/\ resp'.op = "api"
           /\ resp'.attempt_id >= 1
           /\ Foreign(resp'.user, resp'.attempt_id)
           /\ ApiReject(resp'.user, "POST", "object", resp'.attempt_id))
          => (/\ resp'.status = 404
              /\ resp'.success = FALSE
              /\ resp'.value = None
              /\ attempts' = attempts
              /\ req' = req)
       /\ \A r \in Reqs :
            req'[r].pc = "loaded"
            => attempts'[req'[r].attempt_id].user = req'[r].user
       /\ Len(attempts') = Len(attempts)
       /\ \A a \in 1..Len(attempts) :
            attempts'[a] # attempts[a]
            => \E r \in Reqs : /\ req[r].pc = "loaded"
                               /\ req[r].attempt_id = a
                               /\ req[r].user = attempts[a].user]_vars

\* C5 witness: a request for an existing attempt of another user has been
\* answered 404
C5_Witness_ForeignAttempt404 ==
    /\ resp.op = "api"
    /\ resp.status = 404
    /\ resp.attempt_id \in 1..Len(attempts)
    /\ attempts[resp.attempt_id].user # resp.user
    /\ resp.value = None

\* the elements the specification lists as read-only, and the score elements
ReadOnlyElements ==
    {"cmi.core.credit", "cmi.core.entry", "cmi.core.score.scaled",
     "cmi.core.student_id", "cmi.core.student_name", "cmi.core._version"}
ScoreElements ==
    {"cmi.core.score.raw", "cmi.core.score.min", "cmi.core.score.max"}

\* C11: LMSSetValue on a read-only element answers false and leaves the
\* attempt object as it was; on any other element that is not a score it
\* answers true.
C11_ReadOnlyRefused ==
    [][\A r \in Reqs, parameters \in BridgeSetParameters :
          (Len(parameters) = 2 /\ ApiDispatch(r, "LMSSetValue", parameters))
          => IF parameters[1] \in ReadOnlyElements
             THEN /\ resp'.success = FALSE
                  /\ set_scorm_value(req[r].attempt, parameters[1],
                                     parameters[2]).attempt = req[r].attempt
             ELSE parameters[1] \notin ScoreElements
                  => resp'.success = TRUE]_vars

\* the request in slot r, of the given method, is answered in this step
Answered(r, method) ==
    /\ req[r].pc = "loaded"
    /\ req'[r] = Idle
    /\ resp'.op = "api"
    /\ "method" \in DOMAIN resp'
    /\ resp'.method = method

\* values that are no number
NonNumericValues == {"notanumber", "85,5", "passed", LongLocation, JsonNull}

\* C12: LMSSetValue on cmi.core.score.raw, .min or .max with a value that is
\* no number answers false and leaves the attempt object, and the stored
\* attempts, as they were.
C12_NonNumericScoreRefused ==
    [][\A r \in Reqs :
          (/\ Answered(r, "LMSSetValue")
           /\ resp'.element \in ScoreElements
           /\ resp'.value_sent \in NonNumericValues)
          => (/\ resp'.success = FALSE
              /\ set_scorm_value(req[r].attempt, resp'.element,
                                 resp'.value_sent).attempt = req[r].attempt
              /\ attempts' = attempts)]_vars

\* C12 witness: an LMSSetValue was answered false on an attempt that has a
\* score
C12_Witness_RefusedWithPriorScore ==
    /\ resp.op = "api"
    /\ resp.status = 200
    /\ "method" \in DOMAIN resp
    /\ resp.method = "LMSSetValue"
    /\ resp.element = "cmi.core.score.raw"
    /\ resp.success = FALSE
    /\ attempts[resp.attempt_id].score_raw = Some(75)
    /\ attempts[resp.attempt_id].score_max = 50

\* C13: an LMSSetValue request, whatever its element and value and whether
\* it answers true or false, leaves every stored attempt as it was.
C13_SetAloneStoresNothing ==
    [][\A r \in Reqs :
          Answered(r, "LMSSetValue") => attempts' = attempts]_vars

\* C13 witness: an LMSSetValue has answered true and the stored attempt is
\* still the row the launch created
C13_Witness_SetAnswered ==
    /\ resp.op = "api"
    /\ resp.status = 200
    /\ "method" \in DOMAIN resp
    /\ resp.method = "LMSSetValue"
    /\ resp.element = "cmi.core.score.raw"
    /\ resp.success = TRUE
    /\ attempts = <<NewAttempt(1, "alice", 1)>>

\* the element names get_scorm_value knows
KnownElements ==
    {"cmi.core.lesson_status", "cmi.core.score.raw", "cmi.core.score.min",
     "cmi.core.score.max", "cmi.core.lesson_location", "cmi.core.credit",
     "cmi.core.entry", "cmi.core.total_time", "cmi.core.session_time",
     "cmi.core.exit", "cmi.suspend_data", "cmi.launch_data", "cmi.comments",
     "cmi.comments_from_lms", "cmi.core.student_id", "cmi.core.student_name",
     "cmi.core._version"}

\* C15: every LMSGetValue is answered 200 with success true and a string
\* value, the empty string for an element name outside the catalog (the
\* empty name of a request without parameters included), and changes no
\* stored attempt.
C15_GetNeverFails ==
    [][\A r \in Reqs :
          Answered(r, "LMSGetValue")
          => (/\ resp'.status = 200
              /\ resp'.success = TRUE
              /\ resp'.value # None
              /\ resp'.value # Some(JsonNull)
              /\ resp'.element \notin KnownElements
                 => resp'.value = Some("")
              /\ attempts' = attempts)]_vars

\* C15 witness: an LMSGetValue of an element outside the catalog has been
\* answered with the empty string
C15_Witness_UnknownElementRead ==
    /\ resp.op = "api"
    /\ "method" \in DOMAIN resp
    /\ resp.method = "LMSGetValue"
    /\ resp.element = "cmi.bogus"
    /\ resp.success = TRUE
    /\ resp.value = Some("")

\* C14: a launch that returns an existing attempt leaves that attempt with
\* an entry other than 'ab-initio' and with last_accessed at the time of the
\* launch; a launch that creates an attempt creates it with entry
\* 'ab-initio' and lesson_status 'incomplete'.
C14_ResumeMarksEntry ==
    [][/\ \A r \in Reqs :
            (req[r].pc = "resume" /\ LaunchSave(r))
            => (/\ attempts'[req[r].attempt_id].entry # "ab-initio"
                /\ attempts'[req[r].attempt_id].last_accessed = clock')
       /\ Len(attempts') > Len(attempts)
          => (/\ attempts'[Len(attempts')].entry = "ab-initio"
              /\ attempts'[Len(attempts')].lesson_status = "incomplete")]_vars

\* the status the endpoint owes a request that does not reach a method: 405
\* for a verb other than POST, 400 for a body that is no JSON or carries no
\* attempt_id (a JSON array carries none), 404 for an attempt_id that names
\* no attempt of the caller (an id that is no number names none)
OwedStatus(verb, body, aid) ==
    IF verb # "POST" THEN 405
    ELSE IF body \in {"invalid", "array"} THEN 400
    ELSE IF body = "badid" THEN 404
    ELSE IF aid = 0 THEN 400
    ELSE 404

\* C16: every request that fails is answered with the status owed to its
\* failure (405, 400, 404; 500 for none of them) and changes no attempt;
\* every request that reaches a method is answered 200, an unrecognized
\* method with success=true and an empty value.
C16_StatusMapping ==
    [][/\ \A u \in Users, verb \in HttpVerbs, body \in Bodies,
             aid \in 0..(MaxAttempts + 1) :
            ApiReject(u, verb, body, aid)
            => /\ resp'.status = OwedStatus(verb, body, aid)
               /\ attempts' = attempts
       /\ \A r \in ApiReqs, method \in Methods :
            Answered(r, method)
            => /\ resp'.status = 200
               /\ method = "LMSInitialize"
                  => resp'.success /\ resp'.value = Some("")]_vars

\* the attempts of learner u on package p that carry a score
Scored(p, u) == {a \in AttemptsOf(p, u) : attempts[a].score_raw # None}

\* C17: on the progress page of a learner, for every package the learner has
\* attempts on, total_attempts is the number of those attempts,
\* latest_attempt is the one started last, and best_score is the greatest
\* score_raw among those that carry a score.
C17_ProgressSummary ==
    resp.op = "progress"
    => /\ DOMAIN resp.progress_data
            = {p \in Packages : AttemptsOf(p, resp.user) # {}}
       /\ \A p \in DOMAIN resp.progress_data :
            LET mine == AttemptsOf(p, resp.user)
                row == resp.progress_data[p]
            IN /\ row.total_attempts = Cardinality(mine)
               /\ row.latest_attempt \in mine
               /\ \A a \in mine : attempts[a].started_at
                       <= attempts[row.latest_attempt].started_at
               /\ Scored(p, resp.user) # {}
                  => /\ \E a \in Scored(p, resp.user) :
                           attempts[a].score_raw = Some(row.best_score)
                     /\ \A a \in Scored(p, resp.user) :
                           attempts[a].score_raw[1] <= row.best_score

\* C18: the completed_packages count of the progress page is the number of
\* packages on which the learner has at least one attempt that is completed
\* or passed, the set the player page shows for the same rows.
C18_CompletedPackagesCount ==
    resp.op = "progress"
    => resp.completed_packages
           = Cardinality(completed_packages(resp.user, attempts))

\* the columns of a package that are fixed once extraction has settled it
Settled(row) ==
    <<row.status, row.extracted_path, row.entry_point, row.has_file,
      row.archive, row.version, row.course>>

PassesFourChecks(file) ==
    /\ file.name = "course.zip"
    /\ file.size <= 500 * 1024 * 1024
    /\ file.archive # "badzip"
    /\ file.archive = "root"

\* C20: an upload is stored only when its file passes the four checks, and
\* an upload that is turned away fails at least one of them and leaves no
\* package record behind.
C20_UploadValidation ==
    [][\A p \in Packages :
          /\ (ingest[p] = NoIngest /\ ingest'[p] # NoIngest)
             => /\ ingest'[p].pc = "saved"
                /\ PassesFourChecks(ingest'[p].file)
          /\ (resp' # resp /\ resp'.op = "upload" /\ resp'.status = 200)
             => /\ ~PassesFourChecks(resp'.file)
                /\ packages' = packages
                /\ ingest' = ingest]_vars

\* C20 witness: an upload of 500 MiB + 1 byte was turned away and then an
\* upload of exactly 500 MiB was stored
C20_Witness_LimitAccepted ==
    /\ resp.op = "upload"
    /\ resp.status = 200
    /\ resp.file.size = MaxUploadBytes + 1
    /\ ingest[1].pc = "saved"
    /\ ingest[1].file.size = MaxUploadBytes
    /\ packages[1].status = "pending"

\* C21: once LMSFinish has stored completed_at on an attempt, no later step
\* (an LMSCommit, an LMSFinish or a launch writing the row it loaded before)
\* stores the attempt with completed_at empty again.
C21_FinishNotReverted ==
    [][\A a \in AttemptIds :
          attempts[a].completed_at # None
          => attempts'[a].completed_at # None]_vars

\* the six defined values of lesson_status
DefinedStatuses ==
    {"not_attempted", "browsed", "incomplete", "completed", "failed", "passed"}

\* C22: every attempt's lesson_status is one of the six defined values; an
\* LMSSetValue of cmi.core.lesson_status is answered true, with a defined
\* value it sets lesson_status of the request's attempt to that value and
\* with any other value it leaves lesson_status as it was.
C22_StatusStaysDefined ==
    [][/\ \A a \in DOMAIN attempts' :
            attempts'[a].lesson_status \in DefinedStatuses
       /\ \A r \in ApiReqs :
            (Answered(r, "LMSSetValue")
             /\ resp'.element = "cmi.core.lesson_status")
            => LET result == set_scorm_value(req[r].attempt, resp'.element,
                                             resp'.value_sent)
               IN /\ resp'.success = TRUE
                  /\ result.attempt.lesson_status
                       = IF resp'.value_sent \in DefinedStatuses
                         THEN resp'.value_sent
                         ELSE req[r].attempt.lesson_status]_vars

\* C23: while a package is pending, processing or in error, no launch
\* creates an attempt on it, none starts or completes the save of an
\* existing attempt of it, and no request is under way that would do so.
C23_OnlyReadyLaunches ==
    [][\A p \in Packages :
          (packages[p] # NoPackage /\ packages[p].status # "ready")
          => /\ \A a \in DOMAIN attempts' :
                   a \notin DOMAIN attempts => attempts'[a].package # p
             /\ \A r \in ApiReqs :
                   /\ req'[r].pc = "resume" => req'[r].package # p
                   /\ req[r].pc = "resume" => req[r].package # p
             /\ resp' # resp /\ resp'.op = "launch"
                   => resp'.status # 200 \/ attempts'[resp'.attempt].package # p]_vars

\* C23 witness: a launch was answered 404 for a package whose extraction
\* ended in 'error', and there is no attempt
C23_Witness_ErrorPackageNotLaunched ==
    /\ packages[1].status = "error"
    /\ ingest[1].pc = "false"
    /\ resp.op = "launch"
    /\ resp.status = 404
    /\ attempts = << >>

====
